---- MODULE Spec2Model ----
(***************************************************************************)
(* A model of justrun's watch.go: the user ignorer, the watch-set builder  *)
(* (watch) and the event dispatch loop (listenForEvents).                  *)
(*                                                                         *)
(* Paths are sequences of one-character strings, so that the string        *)
(* operations of the code (HasPrefix, HasSuffix, TrimSpace, filepath.Abs,  *)
(* filepath.Dir, filepath.Base) are computed as the code computes them.    *)
(***************************************************************************)
EXTENDS Integers, Sequences, FiniteSets, TLC

\* ------------------------------------------------------------------ bounds
\* Longest inputPaths list of the construction-only specification.
MaxInputs == 2
\* Longest ignoredPaths list.
MaxIgnored == 1
\* Raw events the notification subsystem produces in one run.
MaxEvents == 2
\* Raw errors (nil or not) the notification subsystem produces in one run.
MaxErrors == 1
\* Capacity of the output channel the caller passes to watch.
CmdChCap == 1
\* How far from zero and from the size cap the lengths of digested files and
\* the offsets of failing reads go.
DigestSlack == 3

\* ------------------------------------------------------------- the strings
Sep == "/"

\* The paths of the model, spelled out.
P_a == <<"/", "a">>
P_ab == <<"/", "a", "/", "b">>
P_abc == <<"/", "a", "/", "b", "c">>
P_ab_c == <<"/", "a", "/", "b", "/", "c">>
P_ah == <<"/", "a", "/", ".", "h">>
R_b == <<"b">>
I_blank == <<" ">>
I_ab_sp == <<" ", "/", "a", "/", "b", " ">>
I_ab_slash == <<"/", "a", "/", "b", "/">>

\* os.Getwd() when it succeeds.
Cwd == P_a

\* strings.HasPrefix
HasPrefix(s, prefix) ==
    Len(prefix) <= Len(s) /\ SubSeq(s, 1, Len(prefix)) = prefix

\* strings.HasSuffix
HasSuffix(s, suffix) ==
    Len(suffix) <= Len(s) /\ SubSeq(s, Len(s) - Len(suffix) + 1, Len(s)) = suffix

IsSpace(c) == c \in {" ", "\t", "\n"}

RECURSIVE TrimLeft(_)
TrimLeft(s) ==
    IF s # <<>> /\ IsSpace(Head(s)) THEN TrimLeft(Tail(s)) ELSE s

RECURSIVE TrimRight(_)
TrimRight(s) ==
    IF s # <<>> /\ IsSpace(s[Len(s)]) THEN TrimRight(SubSeq(s, 1, Len(s) - 1)) ELSE s

\* strings.TrimSpace
TrimSpace(s) == TrimRight(TrimLeft(s))

\* The elements of a path between separators, empty ones included.
RECURSIVE SplitSep(_, _, _)
SplitSep(s, cur, acc) ==
    IF s = <<>> THEN Append(acc, cur)
    ELSE IF Head(s) = Sep THEN SplitSep(Tail(s), <<>>, Append(acc, cur))
    ELSE SplitSep(Tail(s), Append(cur, Head(s)), acc)

\* filepath.Clean's pass over the elements: "" and "." are dropped, ".." drops
\* the element before it (at the root nothing; in a relative path it is kept
\* when nothing is left to drop).
RECURSIVE CleanElems(_, _, _)
CleanElems(elems, out, rooted) ==
    IF elems = <<>> THEN out
    ELSE LET e == Head(elems)
             rest == Tail(elems)
         IN IF e = <<>> \/ e = <<".">> THEN CleanElems(rest, out, rooted)
            ELSE IF e = <<".", ".">> THEN
                IF out # <<>> /\ out[Len(out)] # <<".", ".">>
                THEN CleanElems(rest, SubSeq(out, 1, Len(out) - 1), rooted)
                ELSE IF rooted THEN CleanElems(rest, out, rooted)
                ELSE CleanElems(rest, Append(out, e), rooted)
            ELSE CleanElems(rest, Append(out, e), rooted)

RECURSIVE JoinSep(_)
JoinSep(elems) ==
    IF elems = <<>> THEN <<>>
    ELSE IF Len(elems) = 1 THEN Head(elems)
    ELSE Head(elems) \o <<Sep>> \o JoinSep(Tail(elems))

\* filepath.Clean
Clean(path) ==
    IF path = <<>> THEN <<".">>
    ELSE LET rooted == Head(path) = Sep
             body == JoinSep(CleanElems(SplitSep(path, <<>>, <<>>), <<>>, rooted))
         IN IF rooted THEN <<Sep>> \o body
            ELSE IF body = <<>> THEN <<".">> ELSE body

\* filepath.IsAbs
IsAbs(path) == path # <<>> /\ Head(path) = Sep

\* filepath.Abs: an absolute path is cleaned; a relative one is joined to the
\* working directory, and fails when there is none.
Abs(path, wdOK) ==
    IF IsAbs(path) THEN [err |-> FALSE, path |-> Clean(path)]
    ELSE IF ~wdOK THEN [err |-> TRUE, path |-> <<>>]
    ELSE [err |-> FALSE,
          path |-> IF path = <<>> THEN Clean(Cwd) ELSE Clean(Cwd \o <<Sep>> \o path)]

\* Index of the last separator of path, 0 when it has none.
RECURSIVE LastSep(_, _)
LastSep(path, i) ==
    IF i = 0 THEN 0 ELSE IF path[i] = Sep THEN i ELSE LastSep(path, i - 1)

\* filepath.Dir
Dir(path) == Clean(SubSeq(path, 1, LastSep(path, Len(path))))

RECURSIVE StripSeps(_)
StripSeps(path) ==
    IF path # <<>> /\ path[Len(path)] = Sep
    THEN StripSeps(SubSeq(path, 1, Len(path) - 1)) ELSE path

\* filepath.Base
Base(path) ==
    IF path = <<>> THEN <<".">>
    ELSE LET p == StripSeps(path)
         IN IF p = <<>> THEN <<Sep>>
            ELSE SubSeq(p, LastSep(p, Len(p)) + 1, Len(p))

\* --------------------------------------------------------- the environment
\* What the caller may pass as inputPaths and as ignoredPaths.
InputUniverse == {P_a, P_ab, P_abc, P_ab_c, P_ah, R_b}
IgnoreUniverse == {I_blank, I_ab_sp, P_ah, R_b}

\* The paths the notification subsystem may name in a raw event, and the kinds.
EventNames == {P_ab, P_abc, P_ab_c, P_ah}
EventOps == {"REMOVE", "CREATE", "WRITE"}

\* A nil []byte, and a nil error.
Nil == "nil"

\* Sequences over S of length at most n.
BSeq(S, n) == UNION {[1..k -> S] : k \in 0..n}

\* ------------------------------------------------------------------ digest
maxHashedFileSize == 20971520

\* The file system digest reads: what os.Open and f.Stat find at a path.
FileInfo(path) ==
    IF path \in {P_a, P_ab} THEN [exists |-> TRUE, isDir |-> TRUE, size |-> 0]
    ELSE IF path = P_ab_c THEN [exists |-> TRUE, isDir |-> FALSE, size |-> 3]
    ELSE IF path = P_ah THEN [exists |-> TRUE, isDir |-> FALSE, size |-> 0]
    ELSE IF path = P_abc
        THEN [exists |-> TRUE, isDir |-> FALSE, size |-> maxHashedFileSize + 1]
    ELSE [exists |-> FALSE, isDir |-> FALSE, size |-> 0]

\* What digest meets at a path: kind says whether os.Open fails, f.Stat fails,
\* the file is a directory or a regular file; id names the content; size is the
\* length; errAt is the offset at which a read fails (NoErr if none does), the
\* bytes before it being readable.
NoErr == 0 - 1

FileAt(path) ==
    [kind |-> IF ~FileInfo(path).exists THEN "openErr"
              ELSE IF FileInfo(path).isDir THEN "dir" ELSE "file",
     id |-> path, size |-> FileInfo(path).size, errAt |-> NoErr]

Min(a, b) == IF a < b THEN a ELSE b

\* The bytes a sequence of reads delivers before it ends in io.EOF or an error.
Readable(f) == IF f.errAt # NoErr /\ f.errAt <= f.size THEN f.errAt ELSE f.size

\* io.Copy(h, io.LimitReader(br, maxHashedFileSize)): the bytes hashed, and
\* whether the copy met the read error before the limit.
Copy(f) ==
    [n |-> Min(Readable(f), maxHashedFileSize),
     err |-> /\ Readable(f) < maxHashedFileSize
             /\ f.errAt # NoErr
             /\ f.errAt <= f.size]

\* br.Peek(1) after the copy: the bytes peeked, and whether the read failed
\* with an error other than io.EOF.
Peek(f) ==
    [b |-> IF Readable(f) > Copy(f).n THEN 1 ELSE 0,
     err |-> Readable(f) = Copy(f).n /\ f.errAt = Copy(f).n]

\* digest, of what is at the path. The error of Peek is dropped
\* (b, _ := br.Peek(1)): only the bytes peeked are looked at.
digestOf(f) ==
    IF f.kind \in {"openErr", "statErr"} THEN [sum |-> Nil, err |-> TRUE]
    ELSE IF f.kind = "dir" THEN [sum |-> Nil, err |-> FALSE]
    ELSE IF Copy(f).err THEN [sum |-> Nil, err |-> TRUE]
    ELSE IF Peek(f).b > 0 THEN [sum |-> Nil, err |-> FALSE]
    ELSE [sum |-> <<"sha256", f.id, Copy(f).n>>, err |-> FALSE]

\* digest: nil for a directory and for a file with a byte left after the cap.
digest(path) == digestOf(FileAt(path))

\* ------------------------------------------------------------ the ignorers
\* createUserIgnorer: blank entries are skipped; every other entry is recorded
\* by its absolute form and, with a trailing separator, as a directory prefix.
RECURSIVE createUserIgnorer_NoSep(_, _, _)
createUserIgnorer_NoSep(ignoredIn, wdOK, acc) ==
    IF ignoredIn = <<>> THEN acc
    ELSE LET in == TrimSpace(Head(ignoredIn))
             abs == Abs(in, wdOK)
         IN IF Len(in) = 0 THEN createUserIgnorer_NoSep(Tail(ignoredIn), wdOK, acc)
            ELSE IF abs.err THEN [err |-> TRUE, ignored |-> {}, ignoredDirs |-> <<>>]
            ELSE createUserIgnorer_NoSep(Tail(ignoredIn), wdOK,
                    [err |-> FALSE,
                     ignored |-> acc.ignored \cup {abs.path},
                     ignoredDirs |-> Append(acc.ignoredDirs, abs.path)])

RECURSIVE createUserIgnorer(_, _, _)
createUserIgnorer(ignoredIn, wdOK, acc) ==
    IF ignoredIn = <<>> THEN acc
    ELSE LET in == TrimSpace(Head(ignoredIn))
             abs == Abs(in, wdOK)
             dirPath == IF HasSuffix(abs.path, <<Sep>>) THEN abs.path
                        ELSE abs.path \o <<Sep>>
         IN IF Len(in) = 0 THEN createUserIgnorer(Tail(ignoredIn), wdOK, acc)
            ELSE IF abs.err THEN [err |-> TRUE, ignored |-> {}, ignoredDirs |-> <<>>]
            ELSE createUserIgnorer(Tail(ignoredIn), wdOK,
                    [err |-> FALSE,
                     ignored |-> acc.ignored \cup {abs.path},
                     ignoredDirs |-> Append(acc.ignoredDirs, dirPath)])

EmptyUserIgnorer == [err |-> FALSE, ignored |-> {}, ignoredDirs |-> <<>>]

\* userIgnorer.IsIgnored: the absolute form of path is an ignored path or starts
\* with a recorded directory prefix.
UserIsIgnored(u, path, wdOK) ==
    LET abs == Abs(path, wdOK).path
    IN \/ abs \in u.ignored
       \/ \E k \in 1..Len(u.ignoredDirs) : HasPrefix(abs, u.ignoredDirs[k])

Hidden(path) == HasPrefix(Base(path), <<".">>)

\* smartIgnorer.IsIgnored
\* The smart ignorer's hidden-file rule and its rename-directory rule.
HiddenRule(si, path) == Hidden(path) /\ path \notin si.includedHiddenFiles

RenameRule(si, path) == Dir(path) \in si.renameDirs /\ path \notin si.renameChildren

\* smartIgnorer.IsIgnored
SmartIsIgnored(si, path, wdOK) ==
    \/ UserIsIgnored(si.ui, path, wdOK)
    \/ HiddenRule(si, path)
    \/ RenameRule(si, path)

VARIABLES
    inputPaths,           \* watch's first argument
    ignoredPaths,         \* watch's second argument
    cwdOK,                \* whether os.Getwd succeeds
    wpc,                  \* where watch is
    ui,                   \* the user ignorer
    watcher,              \* "none", "open" or "closed"
    idx,                  \* index of the first pass in inputPaths
    userPaths,            \* the map watch builds and returns
    includedHiddenFiles,
    renameDirs,
    renameChildren,
    visited,              \* keys the second pass has visited
    addCalls              \* the paths w.Add was called with, in order

watchVars == <<inputPaths, ignoredPaths, cwdOK, wpc, ui, watcher, idx, userPaths,
               includedHiddenFiles, renameDirs, renameChildren, visited, addCalls>>

VARIABLES
    lpc,                  \* where listenForEvents is: "idle", "select", "send", "done"
    pending,              \* the event the loop holds while it sends, <<>> if none
    wEvents,              \* w.Events: raw events not yet taken by the loop
    wErrors,              \* w.Errors: raw errors not yet taken by the loop
    eventsClosed,         \* w.Events is closed
    errorsClosed,         \* w.Errors is closed
    cmdCh,                \* the output channel's buffer
    cmdClosed,            \* how many times close(cmdCh) ran
    now,                  \* time.Now(), a tick per forwarded event
    received,             \* what the consumer received from cmdCh, in order
    produced,             \* every raw event put on w.Events, in order
    errCount,             \* how many raw errors were put on w.Errors
    logged                \* how many "watch error:" lines were logged

loopVars == <<lpc, pending, wEvents, wErrors, eventsClosed, errorsClosed, cmdCh,
              cmdClosed, now, received, produced, errCount, logged>>

VARIABLES
    dFile,                \* what is at the path digest is called with
    dRet                  \* <<what the call of digest returned>>, <<>> before it

digestVars == <<dFile, dRet>>

vars == <<watchVars, loopVars, digestVars>>

\* The smartIgnorer watch assembles from its sets.
ig == [includedHiddenFiles |-> includedHiddenFiles, ui |-> ui,
       renameDirs |-> renameDirs, renameChildren |-> renameChildren]

\* ------------------------------------------------------------------- Init
NotCalled == <<>>
NoFile == [kind |-> "openErr", id |-> "", size |-> 0, errAt |-> NoErr]

InitCommon ==
    /\ dRet = NotCalled
    /\ wpc = "createUserIgnorer"
    /\ ui = EmptyUserIgnorer
    /\ watcher = "none"
    /\ idx = 1
    /\ userPaths = <<>>
    /\ includedHiddenFiles = {}
    /\ renameDirs = {}
    /\ renameChildren = {}
    /\ visited = {}
    /\ addCalls = <<>>
    /\ lpc = "idle"
    /\ pending = <<>>
    /\ wEvents = <<>>
    /\ wErrors = <<>>
    /\ eventsClosed = FALSE
    /\ errorsClosed = FALSE
    /\ cmdCh = <<>>
    /\ cmdClosed = 0
    /\ now = 0
    /\ received = <<>>
    /\ produced = <<>>
    /\ errCount = 0
    /\ logged = 0

\* The working directory matters only to a relative path.
HasRelative(paths) == \E k \in 1..Len(paths) : ~IsAbs(TrimSpace(paths[k]))

\* The arguments of the construction-only specification: every list within
\* the bounds.
InitWatch ==
    /\ inputPaths \in BSeq(InputUniverse, MaxInputs)
    /\ ignoredPaths \in BSeq(IgnoreUniverse, MaxIgnored)
    /\ cwdOK \in IF HasRelative(inputPaths) \/ HasRelative(ignoredPaths)
                 THEN BOOLEAN ELSE {TRUE}
    /\ dFile = NoFile
    /\ InitCommon

\* The calls of watch the loop is run after: a single file; a directory with a
\* hidden child and an ignored one; an ignored path and a relative path with no
\* working directory; no path at all.
DispatchArgs ==
    {[inputs |-> <<P_abc>>, ignored |-> <<>>, wd |-> TRUE],
     [inputs |-> <<P_a, P_ah>>, ignored |-> <<I_ab_slash>>, wd |-> TRUE],
     [inputs |-> <<P_ab, R_b>>, ignored |-> <<I_ab_sp>>, wd |-> FALSE],
     [inputs |-> <<>>, ignored |-> <<>>, wd |-> TRUE]}

Init ==
    /\ \E a \in DispatchArgs :
        /\ inputPaths = a.inputs
        /\ ignoredPaths = a.ignored
        /\ cwdOK = a.wd
    /\ dFile = NoFile
    /\ InitCommon

\* ------------------------------------------------------------------ watch
\* w.Close() on a failure path of watch: the subscription's channels close.
CloseWatcher_Leak == UNCHANGED <<watcher, eventsClosed, errorsClosed>>

CloseWatcher ==
    /\ watcher' = "closed"
    /\ eventsClosed' = TRUE
    /\ errorsClosed' = TRUE

\* ui, err := createUserIgnorer(ignoredPaths)
CreateUserIgnorer ==
    /\ wpc = "createUserIgnorer"
    /\ LET r == createUserIgnorer(ignoredPaths, cwdOK, EmptyUserIgnorer)
       IN /\ ui' = r
          /\ wpc' = IF r.err THEN "failed" ELSE "NewWatcher"
    /\ UNCHANGED <<inputPaths, ignoredPaths, cwdOK, watcher, idx, userPaths,
                   includedHiddenFiles, renameDirs, renameChildren, visited,
                   addCalls, loopVars,
                   digestVars>>

AfterPass1(k) == IF k > Len(inputPaths) THEN "pass2" ELSE "pass1"

\* w, err := fsnotify.NewWatcher(), succeeding
NewWatcher ==
    /\ wpc = "NewWatcher"
    /\ watcher' = "open"
    /\ wpc' = AfterPass1(1)
    /\ UNCHANGED <<inputPaths, ignoredPaths, cwdOK, ui, idx, userPaths,
                   includedHiddenFiles, renameDirs, renameChildren, visited,
                   addCalls, loopVars,
                   digestVars>>

\* fsnotify.NewWatcher() failing
NewWatcherFail ==
    /\ wpc = "NewWatcher"
    /\ wpc' = "failed"
    /\ UNCHANGED <<inputPaths, ignoredPaths, cwdOK, ui, watcher, idx, userPaths,
                   includedHiddenFiles, renameDirs, renameChildren, visited,
                   addCalls, loopVars,
                   digestVars>>

\* First pass, filepath.Abs(path) failing.
Pass1AbsFail ==
    /\ wpc = "pass1"
    /\ Abs(inputPaths[idx], cwdOK).err
    /\ CloseWatcher
    /\ wpc' = "failed"
    /\ UNCHANGED <<inputPaths, ignoredPaths, cwdOK, ui, idx, userPaths,
                   includedHiddenFiles, renameDirs, renameChildren, visited,
                   addCalls, lpc, pending, wEvents, wErrors, cmdCh, cmdClosed, now,
                   received, produced, errCount, logged,
                   digestVars>>

\* found || ui.IsIgnored(path)
Pass1Skips_NoIgnore(path, fullPath) == fullPath \in DOMAIN userPaths

Pass1Skips_NoFound(path, fullPath) == UserIsIgnored(ui, path, cwdOK)

Pass1Skips(path, fullPath) ==
    fullPath \in DOMAIN userPaths \/ UserIsIgnored(ui, path, cwdOK)

\* First pass, a path already present or ignored by the user: continue.
Pass1Skip ==
    /\ wpc = "pass1"
    /\ ~Abs(inputPaths[idx], cwdOK).err
    /\ Pass1Skips(inputPaths[idx], Abs(inputPaths[idx], cwdOK).path)
    /\ idx' = idx + 1
    /\ wpc' = AfterPass1(idx + 1)
    /\ UNCHANGED <<inputPaths, ignoredPaths, cwdOK, ui, watcher, userPaths,
                   includedHiddenFiles, renameDirs, renameChildren, visited,
                   addCalls, loopVars,
                   digestVars>>

\* First pass, w.Add(fullPath) succeeding: the path and its digest are recorded.
Pass1Add ==
    /\ wpc = "pass1"
    /\ ~Abs(inputPaths[idx], cwdOK).err
    /\ LET fullPath == Abs(inputPaths[idx], cwdOK).path
       IN /\ ~Pass1Skips(inputPaths[idx], fullPath)
          /\ addCalls' = Append(addCalls, fullPath)
          /\ userPaths' = [k \in DOMAIN userPaths \cup {fullPath} |->
                              IF k = fullPath THEN digest(fullPath).sum
                              ELSE userPaths[k]]
    /\ idx' = idx + 1
    /\ wpc' = AfterPass1(idx + 1)
    /\ UNCHANGED <<inputPaths, ignoredPaths, cwdOK, ui, watcher,
                   includedHiddenFiles, renameDirs, renameChildren, visited,
                   loopVars,
                   digestVars>>

\* First pass, w.Add(fullPath) failing.
Pass1AddFail ==
    /\ wpc = "pass1"
    /\ ~Abs(inputPaths[idx], cwdOK).err
    /\ LET fullPath == Abs(inputPaths[idx], cwdOK).path
       IN /\ ~Pass1Skips(inputPaths[idx], fullPath)
          /\ addCalls' = Append(addCalls, fullPath)
    /\ CloseWatcher
    /\ wpc' = "failed"
    /\ UNCHANGED <<inputPaths, ignoredPaths, cwdOK, ui, idx, userPaths,
                   includedHiddenFiles, renameDirs, renameChildren, visited,
                   lpc, pending, wEvents, wErrors, cmdCh, cmdClosed, now,
                   received, produced, errCount, logged,
                   digestVars>>

\* strings.HasPrefix(baseName, "."): the key is recorded as an included hidden file.
HiddenAfter_None(fullPath) == includedHiddenFiles

HiddenAfter_All(fullPath) == includedHiddenFiles \cup {fullPath}

HiddenAfter(fullPath) ==
    IF Hidden(fullPath) THEN includedHiddenFiles \cup {fullPath}
    ELSE includedHiddenFiles

\* !foundDir && dirPath != "": the parent is watched for the child's sake.
NeedsRenameDir_Always(fullPath) == Dir(fullPath) # <<>>

NeedsRenameDir_Visited(fullPath) ==
    Dir(fullPath) \notin visited /\ Dir(fullPath) # <<>>

NeedsRenameDir(fullPath) ==
    Dir(fullPath) \notin DOMAIN userPaths /\ Dir(fullPath) # <<>>

\* renameDirs[dirPath] = true; renameChildren[fullPath] = true
RenameSetsAfter_None(fullPath) == [dirs |-> renameDirs, children |-> renameChildren]

RenameSetsAfter(fullPath) ==
    IF NeedsRenameDir(fullPath)
    THEN [dirs |-> renameDirs \cup {Dir(fullPath)},
          children |-> renameChildren \cup {fullPath}]
    ELSE [dirs |-> renameDirs, children |-> renameChildren]

\* Second pass, one key of userPaths (in the map's order, which is any order),
\* every w.Add succeeding.
Pass2Visit ==
    /\ wpc = "pass2"
    /\ \E fullPath \in DOMAIN userPaths \ visited :
        /\ includedHiddenFiles' = HiddenAfter(fullPath)
        /\ addCalls' = IF NeedsRenameDir(fullPath) /\ Dir(fullPath) \notin renameDirs
                       THEN Append(addCalls, Dir(fullPath)) ELSE addCalls
        /\ renameDirs' = RenameSetsAfter(fullPath).dirs
        /\ renameChildren' = RenameSetsAfter(fullPath).children
        /\ visited' = visited \cup {fullPath}
    /\ UNCHANGED <<inputPaths, ignoredPaths, cwdOK, wpc, ui, watcher, idx,
                   userPaths, loopVars,
                   digestVars>>

\* Second pass, w.Add(dirPath) failing.
Pass2AddFail ==
    /\ wpc = "pass2"
    /\ \E fullPath \in DOMAIN userPaths \ visited :
        /\ NeedsRenameDir(fullPath) /\ Dir(fullPath) \notin renameDirs
        /\ includedHiddenFiles' = HiddenAfter(fullPath)
        /\ addCalls' = Append(addCalls, Dir(fullPath))
    /\ CloseWatcher
    /\ wpc' = "failed"
    /\ UNCHANGED <<inputPaths, ignoredPaths, cwdOK, ui, idx, userPaths,
                   renameDirs, renameChildren, visited,
                   lpc, pending, wEvents, wErrors, cmdCh, cmdClosed, now,
                   received, produced, errCount, logged,
                   digestVars>>

\* go listenForEvents(w, cmdCh, ig); return userPaths, nil
StartLoop ==
    /\ wpc = "pass2"
    /\ visited = DOMAIN userPaths
    /\ wpc' = "returned"
    /\ lpc' = "select"
    /\ UNCHANGED <<inputPaths, ignoredPaths, cwdOK, ui, watcher, idx, userPaths,
                   includedHiddenFiles, renameDirs, renameChildren, visited,
                   addCalls, pending, wEvents, wErrors, eventsClosed, errorsClosed,
                   cmdCh, cmdClosed, now, received, produced, errCount, logged,
                   digestVars>>

NextWatch ==
    \/ CreateUserIgnorer
    \/ NewWatcher
    \/ NewWatcherFail
    \/ Pass1AbsFail
    \/ Pass1Skip
    \/ Pass1Add
    \/ Pass1AddFail
    \/ Pass2Visit
    \/ Pass2AddFail
    \/ StartLoop

SpecWatch == InitWatch /\ [][NextWatch]_vars

\* ----------------------------------------------------------------- digest
\* The files digest is called with: an unopenable path, a file whose Stat
\* fails, a directory, and regular files whose length is within DigestSlack of
\* zero or of the cap, readable throughout or with a read that fails at one of
\* these offsets.
DigestSizes ==
    (0..DigestSlack)
        \cup ((maxHashedFileSize - DigestSlack)..(maxHashedFileSize + DigestSlack))

DigestFiles ==
    {[kind |-> k, id |-> "data", size |-> 0, errAt |-> NoErr] :
        k \in {"openErr", "statErr", "dir"}}
    \cup {f \in [kind : {"file"}, id : {"data"}, size : DigestSizes,
                 errAt : {NoErr} \cup DigestSizes] :
            f.errAt <= f.size}

InitDigest ==
    /\ inputPaths = <<>>
    /\ ignoredPaths = <<>>
    /\ cwdOK = TRUE
    /\ dFile \in DigestFiles
    /\ InitCommon

\* A call of digest.
DigestCall ==
    /\ dRet = NotCalled
    /\ dRet' = <<digestOf(dFile)>>
    /\ UNCHANGED <<dFile, watchVars, loopVars>>

NextDigest == DigestCall

SpecDigest == InitDigest /\ [][NextDigest]_vars

\* ------------------------------------------------- the notification subsystem
Range(f) == {f[k] : k \in DOMAIN f}

\* The subscription reports a registered path and the children of a registered
\* directory.
Reported(name) == name \in Range(addCalls) \/ Dir(name) \in Range(addCalls)

\* A raw event is put on w.Events. (An event that arrives before watch returns
\* waits on the channel until the loop runs: it is produced here once the loop
\* exists, which gives the loop the same channel contents.)
EnvEvent ==
    /\ wpc = "returned"
    /\ ~eventsClosed
    /\ Len(produced) < MaxEvents
    /\ \E name \in EventNames, op \in EventOps :
        /\ Reported(name)
        /\ wEvents' = Append(wEvents, [Name |-> name, Op |-> op])
        /\ produced' = Append(produced, [Name |-> name, Op |-> op])
    /\ UNCHANGED <<digestVars, watchVars, lpc, pending, wErrors, eventsClosed, errorsClosed,
                   cmdCh, cmdClosed, now, received, errCount, logged>>

\* A raw error, nil or not, is put on w.Errors.
EnvError ==
    /\ wpc = "returned"
    /\ ~errorsClosed
    /\ errCount < MaxErrors
    /\ \E e \in {Nil, "error"} : wErrors' = Append(wErrors, e)
    /\ errCount' = errCount + 1
    /\ UNCHANGED <<digestVars, watchVars, lpc, pending, wEvents, eventsClosed, errorsClosed,
                   cmdCh, cmdClosed, now, received, produced, logged>>

\* The subscription closes w.Events.
EnvCloseEvents ==
    /\ wpc = "returned"
    /\ ~eventsClosed
    /\ eventsClosed' = TRUE
    /\ UNCHANGED <<digestVars, watchVars, lpc, pending, wEvents, wErrors, errorsClosed,
                   cmdCh, cmdClosed, now, received, produced, errCount, logged>>

\* The subscription closes w.Errors.
EnvCloseErrors ==
    /\ wpc = "returned"
    /\ ~errorsClosed
    /\ errorsClosed' = TRUE
    /\ UNCHANGED <<digestVars, watchVars, lpc, pending, wEvents, wErrors, eventsClosed,
                   cmdCh, cmdClosed, now, received, produced, errCount, logged>>

\* --------------------------------------------------------- listenForEvents
\* ev, ok := <-w.Events with ok: the oldest raw event and what stays behind.
TakeEvent_Newest(q) == [ev |-> q[Len(q)], rest |-> SubSeq(q, 1, Len(q) - 1)]

TakeEvent(q) == [ev |-> Head(q), rest |-> Tail(q)]

\* !ignorer.IsIgnored(ev.Name)
Forwarded_All(ev) == TRUE

Forwarded_Digest(ev) ==
    /\ ~SmartIsIgnored(ig, ev.Name, cwdOK)
    /\ ~(/\ ev.Op = "WRITE"
         /\ ev.Name \in DOMAIN userPaths
         /\ userPaths[ev.Name] # Nil
         /\ digest(ev.Name).sum = userPaths[ev.Name])

Forwarded(ev) == ~SmartIsIgnored(ig, ev.Name, cwdOK)

\* case ev, ok := <-w.Events, ok: an ignored event is dropped, any other is held
\* for the send.
RecvEvent ==
    /\ lpc = "select"
    /\ wEvents # <<>>
    /\ wEvents' = TakeEvent(wEvents).rest
    /\ IF Forwarded(TakeEvent(wEvents).ev)
       THEN lpc' = "send" /\ pending' = <<TakeEvent(wEvents).ev>>
       ELSE lpc' = "select" /\ pending' = <<>>
    /\ UNCHANGED <<digestVars, watchVars, wErrors, eventsClosed, errorsClosed, cmdCh,
                   cmdClosed, now, received, produced, errCount, logged>>

\* case ev, ok := <-w.Events, !ok: return
RecvEventsClosed ==
    /\ lpc = "select"
    /\ wEvents = <<>>
    /\ eventsClosed
    /\ lpc' = "done"
    /\ UNCHANGED <<digestVars, watchVars, pending, wEvents, wErrors, eventsClosed,
                   errorsClosed, cmdCh, cmdClosed, now, received, produced,
                   errCount, logged>>

\* close(cmdCh): closing a closed channel panics.
CloseCmdCh_NoReturn ==
    /\ cmdClosed' = cmdClosed + 1
    /\ lpc' = "select"

CloseCmdCh ==
    /\ cmdClosed' = cmdClosed + 1
    /\ lpc' = IF cmdClosed = 0 THEN "done" ELSE "panic"

\* case err, ok := <-w.Errors, ok: nil closes the output channel and returns,
\* any other error is logged.
RecvError_Fatal ==
    /\ lpc = "select"
    /\ wErrors # <<>>
    /\ wErrors' = Tail(wErrors)
    /\ CloseCmdCh
    /\ logged' = IF Head(wErrors) = Nil THEN logged ELSE logged + 1
    /\ UNCHANGED <<digestVars, watchVars, pending, wEvents, eventsClosed, errorsClosed,
                   cmdCh, now, received, produced, errCount>>

RecvError ==
    /\ lpc = "select"
    /\ wErrors # <<>>
    /\ wErrors' = Tail(wErrors)
    /\ IF Head(wErrors) = Nil
       THEN CloseCmdCh /\ logged' = logged
       ELSE lpc' = "select" /\ cmdClosed' = cmdClosed /\ logged' = logged + 1
    /\ UNCHANGED <<digestVars, watchVars, pending, wEvents, eventsClosed, errorsClosed,
                   cmdCh, now, received, produced, errCount>>

\* case err, ok := <-w.Errors, !ok: close(cmdCh); return
RecvErrorsClosed ==
    /\ lpc = "select"
    /\ wErrors = <<>>
    /\ errorsClosed
    /\ CloseCmdCh
    /\ UNCHANGED <<digestVars, watchVars, pending, wEvents, wErrors, eventsClosed,
                   errorsClosed, cmdCh, now, received, produced, errCount, logged>>

\* A send that gives up when the channel is full.
Send_OrDrop ==
    /\ lpc = "send"
    /\ cmdCh' = IF Len(cmdCh) < CmdChCap
                THEN Append(cmdCh, [Time |-> now, Event |-> pending[1]])
                ELSE cmdCh
    /\ now' = now + 1
    /\ pending' = <<>>
    /\ lpc' = "select"
    /\ UNCHANGED <<digestVars, watchVars, wEvents, wErrors, eventsClosed, errorsClosed,
                   cmdClosed, received, produced, errCount, logged>>

\* cmdCh <- event{Time: time.Now(), Event: ev}: blocks while the channel is full,
\* panics on a closed channel.
Send ==
    /\ lpc = "send"
    /\ cmdClosed > 0 \/ Len(cmdCh) < CmdChCap
    /\ IF cmdClosed > 0
       THEN lpc' = "panic" /\ UNCHANGED <<cmdCh, now, pending>>
       ELSE /\ cmdCh' = Append(cmdCh, [Time |-> now, Event |-> pending[1]])
            /\ now' = now + 1
            /\ pending' = <<>>
            /\ lpc' = "select"
    /\ UNCHANGED <<digestVars, watchVars, wEvents, wErrors, eventsClosed, errorsClosed,
                   cmdClosed, received, produced, errCount, logged>>

\* The consumer receives from the output channel.
ConsumerRecv ==
    /\ cmdCh # <<>>
    /\ received' = Append(received, Head(cmdCh))
    /\ cmdCh' = Tail(cmdCh)
    /\ UNCHANGED <<digestVars, watchVars, lpc, pending, wEvents, wErrors, eventsClosed,
                   errorsClosed, cmdClosed, now, produced, errCount, logged>>

Loop == RecvEvent \/ RecvEventsClosed \/ RecvError \/ RecvErrorsClosed \/ Send

Next ==
    \/ CreateUserIgnorer
    \/ NewWatcher
    \/ NewWatcherFail
    \/ Pass1AbsFail
    \/ Pass1Skip
    \/ Pass1Add
    \/ Pass1AddFail
    \/ Pass2Visit
    \/ Pass2AddFail
    \/ StartLoop
    \/ EnvEvent
    \/ EnvError
    \/ EnvCloseEvents
    \/ EnvCloseErrors
    \/ RecvEvent
    \/ RecvEventsClosed
    \/ RecvError
    \/ RecvErrorsClosed
    \/ Send
    \/ ConsumerRecv

Spec == Init /\ [][Next]_vars

\* The scheduler runs the loop's goroutine whenever it can take a step, and the
\* consumer keeps receiving.
FairSpec == Spec /\ WF_vars(Loop) /\ WF_vars(ConsumerRecv)

\* ============================================================== the claims
\* Paths the ignore policy is asked about.
P_ab_h == <<"/", "a", "/", "b", "/", ".", "h">>
P_ac == <<"/", "a", "/", "c">>
QueryPaths == {P_a, P_ab, P_abc, P_ab_c, P_ah, P_ab_h, P_ac}

\* The raw events the loop has taken from w.Events, in order.
Taken == SubSeq(produced, 1, Len(produced) - Len(wEvents))
\* How many raw errors the loop has taken from w.Errors.
ErrTaken == errCount - Len(wErrors)
\* The raw events of a sequence of forwarded events.
EventsOf(q) == [k \in 1..Len(q) |-> q[k].Event]
\* The raw events the loop has sent or is sending, in order.
Out == EventsOf(received \o cmdCh) \o pending
IsPrefix(s, t) == Len(s) <= Len(t) /\ SubSeq(t, 1, Len(s)) = s

\* C1: whenever the dispatch loop has stopped (events channel closed, errors
\* channel closed, or nil error), the output channel is closed.
C1_StoppedImpliesClosed == lpc = "done" => cmdClosed >= 1

\* C2: once both channels of the subscription are closed, the loop eventually
\* stops and the output channel is eventually closed.
C2_ShutdownClosesOutput ==
    (wpc = "returned" /\ eventsClosed /\ errorsClosed)
        ~> (lpc = "done" /\ cmdClosed >= 1)

\* C3: every taken, non-ignored raw event is sent exactly once (it is in the
\* output in order, or is the one event the loop holds), and while the loop is
\* at its send it takes no further raw event and no raw error.
C3_NoDropNoBuffer ==
    /\ [](/\ SelectSeq(Taken, Forwarded) = Out
          /\ Len(pending) <= 1
          /\ (pending # <<>> <=> lpc = "send"))
    /\ [][lpc = "send" =>
            /\ Len(produced') - Len(wEvents') = Len(produced) - Len(wEvents)
            /\ errCount' - Len(wErrors') = ErrTaken]_vars

C3_Witness ==
    /\ lpc = "send"
    /\ Len(cmdCh) = CmdChCap
    /\ wErrors # <<>>

\* C4: what the consumer received is, in order, a prefix of the non-ignored raw
\* events the subscription produced: a subsequence of the produced events, never
\* reordered or duplicated.
C4_OrderPreserved == IsPrefix(EventsOf(received), SelectSeq(produced, Forwarded))

C4_Witness ==
    /\ Len(received) = 2
    /\ received[1].Event # received[2].Event
    /\ received[1].Time < received[2].Time

\* C5: no event whose path the ignore policy flags is ever sent, and taking such
\* an event sends nothing and leaves the loop selecting.
C5_IgnoredNeverSent ==
    /\ [](\A k \in 1..Len(Out) : ~SmartIsIgnored(ig, Out[k].Name, cwdOK))
    /\ [][(/\ lpc = "select"
           /\ Len(produced') - Len(wEvents') = Len(Taken) + 1
           /\ SmartIsIgnored(ig, Head(wEvents).Name, cwdOK))
          => /\ lpc' = "select"
             /\ pending' = <<>>
             /\ UNCHANGED <<cmdCh, cmdClosed, received>>]_vars

C5_Witness ==
    /\ Len(produced) = 2
    /\ wEvents = <<>>
    /\ lpc = "select"
    /\ SmartIsIgnored(ig, produced[1].Name, cwdOK)
    /\ EventsOf(received) = <<produced[2]>>

\* C6: with a single watched file F, not hidden and not ignored, every taken
\* raw event for F is forwarded, in order, and no event for another child of
\* F's parent directory is.
C6_Scenario ==
    /\ wpc = "returned"
    /\ Len(inputPaths) = 1
    /\ DOMAIN userPaths = {Abs(inputPaths[1], cwdOK).path}
    /\ ~Hidden(Abs(inputPaths[1], cwdOK).path)

C6_RenameAwayAndBack ==
    C6_Scenario =>
        LET F == Abs(inputPaths[1], cwdOK).path
        IN /\ SelectSeq(Taken, LAMBDA e : e.Name = F)
                = SelectSeq(Out, LAMBDA e : e.Name = F)
           /\ \A k \in 1..Len(Out) : Dir(Out[k].Name) = Dir(F) => Out[k].Name = F

C6_Witness ==
    /\ C6_Scenario
    /\ inputPaths = <<P_abc>>
    /\ EventsOf(received) = <<[Name |-> P_abc, Op |-> "REMOVE"],
                              [Name |-> P_abc, Op |-> "CREATE"]>>

\* The input paths the user ignorer flags, by their absolute form.
FlaggedInputs ==
    {Abs(inputPaths[k], cwdOK).path : k \in {j \in 1..Len(inputPaths) :
        /\ ~Abs(inputPaths[j], cwdOK).err
        /\ UserIsIgnored(ui, inputPaths[j], cwdOK)}}

\* C7: an input path the user ignorer flags is never passed to Add, is no key
\* of the map and is in none of the derived sets; a parent directory is only
\* ever registered on account of a key of the map.
C7_IgnoredInputFiltered ==
    /\ \A p \in FlaggedInputs :
        /\ p \notin Range(addCalls)
        /\ p \notin DOMAIN userPaths
        /\ p \notin includedHiddenFiles
        /\ p \notin renameDirs
        /\ p \notin renameChildren
    /\ renameChildren \subseteq DOMAIN userPaths
    /\ includedHiddenFiles \subseteq DOMAIN userPaths
    /\ renameDirs = {Dir(c) : c \in renameChildren}

C7_Witness ==
    /\ wpc = "returned"
    /\ FlaggedInputs = {P_ab_c}
    /\ ui.ignored = {P_ab}
    /\ DOMAIN userPaths = {P_abc}
    /\ renameDirs = {P_a}

\* The elements of an absolute path.
Elems(path) == CleanElems(SplitSep(path, <<>>, <<>>), <<>>, TRUE)
\* path lies under dir: dir's elements are a proper prefix of path's.
IsUnder(path, dir) ==
    Len(Elems(dir)) < Len(Elems(path)) /\ IsPrefix(Elems(dir), Elems(path))
\* The entries of ignoredPaths that are not blank, trimmed.
IgnoreEntries ==
    {TrimSpace(ignoredPaths[k]) : k \in {j \in 1..Len(ignoredPaths) :
        TrimSpace(ignoredPaths[j]) # <<>>}}

\* C8: once the user ignorer is built, a path is ignored by it exactly when its
\* absolute form is a non-blank ignore entry's absolute form or lies under one;
\* blank entries record nothing; the smart ignorer ignores what it ignores.
C8_UserIgnorerDecision ==
    (wpc # "createUserIgnorer" /\ ~ui.err) =>
        /\ ui.ignored = {Abs(e, cwdOK).path : e \in IgnoreEntries}
        /\ Len(ui.ignoredDirs)
            = Cardinality({k \in 1..Len(ignoredPaths) : TrimSpace(ignoredPaths[k]) # <<>>})
        /\ \A p \in QueryPaths :
            /\ UserIsIgnored(ui, p, cwdOK)
                <=> \E e \in IgnoreEntries :
                        \/ Abs(p, cwdOK).path = Abs(e, cwdOK).path
                        \/ IsUnder(Abs(p, cwdOK).path, Abs(e, cwdOK).path)
            /\ UserIsIgnored(ui, p, cwdOK) => SmartIsIgnored(ig, p, cwdOK)

C8_Witness ==
    /\ wpc = "returned"
    /\ ignoredPaths = <<I_ab_sp>>
    /\ UserIsIgnored(ui, P_ab, cwdOK)
    /\ UserIsIgnored(ui, P_ab_c, cwdOK)
    /\ ~UserIsIgnored(ui, P_abc, cwdOK)

\* C9 as stated: under a rename-tracked directory a path is not ignored exactly
\* when it is a rename child, and every sibling other than a rename child is
\* ignored.
C9_Original ==
    \A c \in QueryPaths : Dir(c) \in renameDirs =>
        /\ ~SmartIsIgnored(ig, c, cwdOK) <=> c \in renameChildren
        /\ c \in renameChildren =>
            \A s \in QueryPaths : (s # c /\ Dir(s) = Dir(c)) => SmartIsIgnored(ig, s, cwdOK)

\* C9, amended: under a rename-tracked directory a path is not ignored exactly
\* when it is a rename child, and every path under it that is not a rename
\* child is ignored.
C9_RenameDirFiltering ==
    \A c \in QueryPaths : Dir(c) \in renameDirs =>
        /\ ~SmartIsIgnored(ig, c, cwdOK) <=> c \in renameChildren
        /\ \A s \in QueryPaths :
            (Dir(s) = Dir(c) /\ s \notin renameChildren) => SmartIsIgnored(ig, s, cwdOK)

C9_Witness ==
    /\ wpc = "returned"
    /\ renameDirs = {P_a}
    /\ renameChildren = {P_abc, P_ah}
    /\ ~SmartIsIgnored(ig, P_abc, cwdOK)
    /\ ~SmartIsIgnored(ig, P_ah, cwdOK)
    /\ SmartIsIgnored(ig, P_ac, cwdOK)

\* C10: for the policy watch has built, includedHiddenFiles is the set of hidden
\* keys of the map, every hidden path that is no key is ignored, and the
\* hidden-file rule ignores no key.
C10_HiddenSuppression ==
    wpc = "returned" =>
        /\ includedHiddenFiles = {k \in DOMAIN userPaths : Hidden(k)}
        /\ \A p \in QueryPaths :
            (Hidden(p) /\ p \notin DOMAIN userPaths) => SmartIsIgnored(ig, p, cwdOK)
        /\ \A p \in DOMAIN userPaths : ~HiddenRule(ig, p)

C10_Witness ==
    /\ wpc = "returned"
    /\ DOMAIN userPaths = {P_ah, P_ab}
    /\ includedHiddenFiles = {P_ah}
    /\ ~SmartIsIgnored(ig, P_ah, cwdOK)
    /\ SmartIsIgnored(ig, P_ab_h, cwdOK)

\* The absolute forms of the input paths the user ignorer does not flag.
UnflaggedInputs ==
    {Abs(inputPaths[k], cwdOK).path : k \in {j \in 1..Len(inputPaths) :
        ~UserIsIgnored(ui, inputPaths[j], cwdOK)}}

\* C11: when watch succeeds, the keys of the returned map are exactly the
\* absolute forms of the input paths the user ignorer does not flag, and the
\* value of a directory is nil.
C11_WatchSetContent ==
    wpc = "returned" =>
        /\ DOMAIN userPaths = UnflaggedInputs
        /\ ignoredPaths = <<>> =>
            DOMAIN userPaths = {Abs(inputPaths[k], cwdOK).path : k \in 1..Len(inputPaths)}
        /\ \A k \in DOMAIN userPaths : FileInfo(k).isDir => userPaths[k] = Nil

C11_Witness ==
    /\ wpc = "returned"
    /\ inputPaths = <<R_b, P_ab_c>>
    /\ ignoredPaths = <<>>
    /\ DOMAIN userPaths = {P_ab, P_ab_c}
    /\ userPaths[P_ab] = Nil
    /\ userPaths[P_ab_c] # Nil

\* C12: when watch fails, a subscription it opened is closed, the loop was
\* never started and nothing was sent or closed on the output channel.
C12_FailureIsAtomic ==
    wpc = "failed" =>
        /\ watcher \in {"none", "closed"}
        /\ watcher = "closed" => (eventsClosed /\ errorsClosed)
        /\ lpc = "idle"
        /\ cmdCh = <<>> /\ received = <<>> /\ pending = <<>>
        /\ cmdClosed = 0

C12_Witness ==
    /\ wpc = "failed"
    /\ watcher = "closed"
    /\ DOMAIN userPaths # {}
    /\ Len(addCalls) = 2
    /\ addCalls[2] = Dir(addCalls[1])

\* C15: after a successful watch, a key is a rename child exactly when its
\* parent directory is a rename directory and exactly when that parent is no
\* key; the rename directories are the parents of the rename children and none
\* of them is a key.
C15_RenameTracking ==
    wpc = "returned" =>
        /\ \A p \in DOMAIN userPaths :
            /\ p \in renameChildren <=> Dir(p) \in renameDirs
            /\ p \in renameChildren <=> Dir(p) \notin DOMAIN userPaths
        /\ renameDirs \cap DOMAIN userPaths = {}
        /\ renameDirs = {Dir(c) : c \in renameChildren}

C15_Witness ==
    /\ wpc = "returned"
    /\ DOMAIN userPaths = {P_ab, P_ab_c}
    /\ renameChildren = {P_ab}
    /\ renameDirs = {P_a}

\* C16: Add is called at most once for each path, over both passes, and after
\* a successful watch the paths it was called with are the keys of the map
\* together with the rename directories.
C16_AddAtMostOnce ==
    /\ \A j, k \in 1..Len(addCalls) : addCalls[j] = addCalls[k] => j = k
    /\ wpc = "returned" => Range(addCalls) = DOMAIN userPaths \cup renameDirs

C16_Witness ==
    /\ wpc = "returned"
    /\ inputPaths = <<P_abc, P_abc>>
    /\ addCalls = <<P_abc, P_a>>

\* C20: after a successful watch the derived sets and the registered paths are
\* the ones the key set alone determines, in whatever order the second pass
\* visited the keys, and the map is the one the set of unflagged input paths
\* determines, in whatever order they were given.
C20_OrderIndependent ==
    wpc = "returned" =>
        /\ includedHiddenFiles = {k \in DOMAIN userPaths : Hidden(k)}
        /\ renameChildren = {k \in DOMAIN userPaths : Dir(k) \notin DOMAIN userPaths}
        /\ renameDirs = {Dir(k) : k \in {j \in DOMAIN userPaths : Dir(j) \notin DOMAIN userPaths}}
        /\ Range(addCalls) = DOMAIN userPaths \cup renameDirs
        /\ userPaths = [k \in UnflaggedInputs |-> digest(k).sum]

C20_Witness ==
    /\ wpc = "returned"
    /\ inputPaths = <<P_ab_c, P_ab>>
    /\ addCalls = <<P_ab_c, P_ab, P_a>>
    /\ renameDirs = {P_a}
    /\ renameChildren = {P_ab}

\* The loop is in its Running state: at the select or at the send.
Running == lpc \in {"select", "send"}

\* C13: the loop leaves Running only from the select, on a closed input
\* channel or on a nil error; taking a non-nil error logs it, keeps the loop
\* at the select, sends nothing and does not close the output channel; and the
\* events taken after an error has been logged are filtered and forwarded like
\* the ones before.
C13_ErrorsNonFatal ==
    /\ [][(Running /\ ~Running') =>
            /\ lpc = "select"
            /\ \/ wEvents = <<>> /\ eventsClosed
               \/ wErrors = <<>> /\ errorsClosed
               \/ wErrors # <<>> /\ Head(wErrors) = Nil]_vars
    /\ [][(errCount' - Len(wErrors') = ErrTaken + 1 /\ Head(wErrors) # Nil) =>
            /\ lpc = "select" /\ lpc' = "select"
            /\ logged' = logged + 1
            /\ UNCHANGED <<cmdCh, cmdClosed, received, pending>>]_vars
    /\ [](logged > 0 => SelectSeq(Taken, Forwarded) = Out)

C13_Witness ==
    /\ logged = 1
    /\ wErrors = <<>>
    /\ cmdClosed = 0
    /\ lpc = "select"
    /\ Len(received) = 2

\* C19: the output channel is closed at most once, nothing is closed or sent
\* by a panicking loop, a closed output channel means the loop has returned
\* holding no event, and nothing is added to the output channel once it is
\* closed.
C19_ClosedChannelSafety ==
    /\ [](/\ cmdClosed <= 1
          /\ lpc # "panic"
          /\ cmdClosed = 1 => (lpc = "done" /\ pending = <<>>))
    /\ [][cmdClosed >= 1 =>
            Len(received') + Len(cmdCh') = Len(received) + Len(cmdCh)]_vars

C19_Witness ==
    /\ cmdClosed = 1
    /\ eventsClosed /\ errorsClosed
    /\ Len(produced) = 2
    /\ Len(received) + Len(cmdCh) = 1
    /\ wEvents # <<>>

\* A write event for a watched file whose content digest still equals the
\* fingerprint stored for it.
UnchangedWrite(ev) ==
    /\ ev.Op = "WRITE"
    /\ ev.Name \in DOMAIN userPaths
    /\ userPaths[ev.Name] # Nil
    /\ digest(ev.Name).sum = userPaths[ev.Name]

\* C14: no write event that leaves the digest of a watched file equal to its
\* stored fingerprint is forwarded.
C14_UnchangedSuppressed == \A k \in 1..Len(Out) : ~UnchangedWrite(Out[k])

\* The forwarding decision as a function of the event's name and the ignore
\* sets alone.
NameOnly(ev) == ~SmartIsIgnored(ig, ev.Name, cwdOK)

\* C18: no step taken after watch has returned changes the returned map or the
\* ignore sets, and the events forwarded are the taken events selected by name
\* and ignore sets alone, whatever their kind and whatever the stored
\* fingerprint or the content of the file is.
C18_FingerprintsUnused ==
    /\ [][wpc = "returned" =>
            UNCHANGED <<userPaths, ui, includedHiddenFiles, renameDirs,
                        renameChildren>>]_vars
    /\ [](Out = SelectSeq(Taken, NameOnly))
    /\ [](\A j, k \in 1..Len(Taken) :
            Taken[j].Name = Taken[k].Name =>
                ((\E m \in 1..Len(Out) : Out[m] = Taken[j])
                    <=> (\E m \in 1..Len(Out) : Out[m] = Taken[k])))

C18_Witness ==
    /\ Len(received) = 2
    /\ received[1].Event.Name = P_ah
    /\ received[2].Event.Name = P_ah
    /\ received[1].Event.Op = "WRITE"
    /\ received[2].Event.Op = "CREATE"
    /\ userPaths[P_ah] # Nil

\* The call of digest met an error: os.Open or f.Stat failed, or a read it
\* issued (during the copy or for the peek) failed.
MetError(f) ==
    \/ f.kind \in {"openErr", "statErr"}
    \/ f.kind = "file" /\ (Copy(f).err \/ Peek(f).err)

\* C17: a readable regular file no longer than the cap gets a fingerprint and no
\* error, a longer one gets nil and no error, a fingerprint is never the hash of
\* a part of the file, a directory gets nil and no error, and an open, stat or
\* read error is returned with a nil fingerprint.
C17_DigestSizeCap ==
    dRet # NotCalled =>
        /\ (dFile.kind = "file" /\ dFile.errAt = NoErr /\ dFile.size <= maxHashedFileSize)
            => (dRet[1].sum # Nil /\ ~dRet[1].err)
        /\ (dFile.kind = "file" /\ dFile.errAt = NoErr /\ dFile.size > maxHashedFileSize)
            => (dRet[1].sum = Nil /\ ~dRet[1].err)
        /\ dRet[1].sum # Nil => dRet[1].sum[3] = dFile.size
        /\ dFile.kind = "dir" => (dRet[1].sum = Nil /\ ~dRet[1].err)
        /\ MetError(dFile) => (dRet[1].sum = Nil /\ dRet[1].err)
====
